---- MODULE Spec2Model ----
(***************************************************************************)
(* Model of src/main.py: the esportsearnings.com scraper.                  *)
(*                                                                         *)
(* The program is sequential.  Its state is the position of the control    *)
(* (pc), the locals of the extractor that is running, the tables main      *)
(* holds, the files written, and the upstream API.  Every loop iteration   *)
(* of an extractor is two steps: the request (get_data) and the rest of    *)
(* the loop body.                                                          *)
(*                                                                         *)
(* A DataFrame is a record [cols, rows]: the set of its column names and   *)
(* the sequence of its rows, each row a function from column name to an    *)
(* integer cell.                                                           *)
(***************************************************************************)
EXTENDS Integers, Sequences, FiniteSets, TLC

(***************************************************************************)
(* Bounds of the model.                                                    *)
(***************************************************************************)
\* The page size of the API and the default of the `limit` parameters
\* (100 in the source), scaled down.
DefaultLimit == 2
\* The largest number of rows any upstream listing holds.
MaxRows == 4
\* The longest identifier list an extractor is called with directly.
MaxIds == 2
\* Cells of a timestamp's time of day: a day has TicksPerDay of them.
TicksPerDay == 2

(***************************************************************************)
(* Program constants.                                                      *)
(***************************************************************************)
\* date(2023, 1, 1), as a day number
query_min_date == 1
wait_time_in_seconds == 1
\* The module's `verbose`, which main hands to three of the extractors.
module_verbose == TRUE
\* Game identifiers that occur upstream (those of the spec's scenario).
GameIds == {7, 42}
\* The status codes the API answers with.
Statuses == {200, 500}
\* A cell pandas fills in for a column a row does not have.
NaN == -1

VARIABLES
    pc,                 \* position of the control
    retpc,              \* where the running extractor returns to
    result,             \* the value the last extractor returned
    \* parameters and locals of the running extractor
    query_until_date, limit, verbose, teamplay, ids, idx,
    offset, first_run, last_page, df, df_all,
    \* locals of main
    df_tournaments, df_games, df_solo_earnings, df_team_earnings,
    df_solo_tournament_earnings, df_team_tournament_earnings,
    files,              \* the files written so far, in order
    \* environment
    upstream,           \* what the API can serve
    log,                \* history: one entry per request issued
    slept               \* a rate-limit delay has passed since the last request

params == <<query_until_date, limit, verbose, teamplay, ids>>
locals == <<idx, offset, first_run, last_page, df, df_all>>
mainVars == <<df_tournaments, df_games, df_solo_earnings, df_team_earnings,
              df_solo_tournament_earnings, df_team_tournament_earnings, files>>
vars == <<pc, retpc, result, params, locals, mainVars, upstream, log, slept>>

(***************************************************************************)
(* DataFrames.                                                             *)
(***************************************************************************)
EmptyDF == [cols |-> {}, rows |-> <<>>]

shape0(d) == Len(d.rows)

\* A row widened to the columns cs, NaN where it has no cell.
Reindex(r, cs) == [c \in cs |-> IF c \in DOMAIN r THEN r[c] ELSE NaN]

\* DataFrame.append: the rows of a then those of b, over the union of columns.
df_append_Prepend(a, b) ==
    LET cs == a.cols \cup b.cols
        rs == b.rows \o a.rows
    IN  [cols |-> cs, rows |-> [i \in 1..Len(rs) |-> Reindex(rs[i], cs)]]

df_append(a, b) ==
    LET cs == a.cols \cup b.cols
        rs == a.rows \o b.rows
    IN  [cols |-> cs, rows |-> [i \in 1..Len(rs) |-> Reindex(rs[i], cs)]]

\* df[col] = value: the column is added or overwritten in every row.
df_set_KeepExisting(d, col, value) ==
    [cols |-> d.cols \cup {col},
     rows |-> [i \in 1..Len(d.rows) |->
                 [c \in d.cols \cup {col} |->
                     IF c \in d.cols THEN d.rows[i][c] ELSE value]]]

df_set(d, col, value) ==
    [cols |-> d.cols \cup {col},
     rows |-> [i \in 1..Len(d.rows) |->
                 [c \in d.cols \cup {col} |->
                     IF c = col THEN value ELSE d.rows[i][c]]]]

\* DataFrame.drop(labels, axis=1) raises KeyError unless all labels are columns.
drop_raises_Ignored(d, labels) == FALSE

drop_raises(d, labels) == ~(labels \subseteq d.cols)

df_drop_KeepOnlyLabels(d, labels) ==
    [cols |-> d.cols \cap labels,
     rows |-> [i \in 1..Len(d.rows) |->
                 [c \in d.cols \cap labels |-> d.rows[i][c]]]]

df_drop(d, labels) ==
    [cols |-> d.cols \ labels,
     rows |-> [i \in 1..Len(d.rows) |->
                 [c \in d.cols \ labels |-> d.rows[i][c]]]]

\* df[df[col] == value]
df_where(d, col, value) ==
    [cols |-> d.cols, rows |-> SelectSeq(d.rows, LAMBDA r : r[col] = value)]

\* The values of one column, in row order.
Column(d, col) == [i \in 1..Len(d.rows) |-> d.rows[i][col]]

unique_KeepAll(s) == s

\* Series.unique(): the distinct values in order of first occurrence.
RECURSIVE unique(_)
unique(s) ==
    IF s = <<>> THEN <<>>
    ELSE LET init == unique(SubSeq(s, 1, Len(s) - 1))
             last == s[Len(s)]
         IN  IF \E i \in 1..Len(init) : init[i] = last
             THEN init ELSE Append(init, last)

\* Series.min() of a column of a DataFrame that has rows.
ColumnMin(d, col) ==
    CHOOSE m \in {d.rows[i][col] : i \in 1..Len(d.rows)} :
        \A i \in 1..Len(d.rows) : m <= d.rows[i][col]

(***************************************************************************)
(* The upstream API.  A response is [status_code, text_empty, json]: json  *)
(* is the array of objects in the body, <<>> when the body is empty.       *)
(* Listings are served by position: the page asked at `offset` holds the   *)
(* rows at positions offset+1 .. offset+n, n at most the API's page size,  *)
(* the tournament listing has at most upstream.tcap rows and every other  *)
(* listing at most upstream.icap.                                          *)
(***************************************************************************)
\* A timestamp of day d as the API sends it: some time within the day.
Stamp(d) == d * TicksPerDay + (TicksPerDay - 1)

\* What a tournament can be like.
TournAttrs == [GameId : GameIds, Teamplay : {0, 1},
               day : {query_min_date, query_min_date + 1}]

TournRow(p, a) ==
    [TournamentId |-> p, GameId |-> a.GameId, Teamplay |-> a.Teamplay,
     StartDate |-> Stamp(a.day), EndDate |-> Stamp(a.day), TotalUSDPrize |-> 0]

\* The API may send the id column itself: not at all, holding the id that
\* was asked for, or holding another value.
EchoModes == {"none", "same", "other"}

WithEcho(r, col, id, echo) ==
    CASE echo = "none" -> r
      [] echo = "same" -> (col :> id) @@ r
      [] echo = "other" -> (col :> 0 - id) @@ r

GameRow(g, echo) ==
    WithEcho([GameName |-> g, TotalUSDPrize |-> 0], "GameId", g, echo)

EarningsRow(team, g, rank, echo) ==
    WithEcho(IF team
             THEN [TeamId |-> rank, TeamName |-> rank, TotalUSDPrize |-> 0]
             ELSE [PlayerId |-> rank, NameFirst |-> rank, NameLast |-> rank,
                   TotalUSDPrize |-> 0],
             "GameId", g, echo)

ResultRow(team, t, rank, echo) ==
    WithEcho(IF team
             THEN [Ranking |-> rank, TeamId |-> rank, PrizeUSD |-> 0]
             ELSE [Ranking |-> rank, PlayerId |-> rank, NameFirst |-> rank,
                   NameLast |-> rank, PrizeUSD |-> 0],
             "TournamentId", t, echo)

\* The lengths a page at offset off can have in a listing of at most cap rows.
PageLens(off, cap) ==
    {n \in 0..DefaultLimit : n = 0 \/ off + n <= cap}

TournPages(off) ==
    UNION {{[i \in 1..n |-> TournRow(off + i, f[i])] :
                f \in [1..n -> upstream.attrs]} :
           n \in PageLens(off, upstream.tcap)}

GamePages(g) == {<<>>, <<GameRow(g, upstream.echo)>>}

EarningsPages(team, g, off) ==
    {[i \in 1..n |-> EarningsRow(team, g, off + i, upstream.echo)] :
        n \in PageLens(off, upstream.icap)}

ResultPages(team, t) ==
    {[i \in 1..n |-> ResultRow(team, t, i, upstream.echo)] :
        n \in PageLens(0, upstream.icap)}

\* The responses the API may give when the body of a good one is in pages:
\* a good one may also have no body at all, and a bad one has some body.
Responses(pages) ==
    {[status_code |-> s, text_empty |-> FALSE, json |-> j] :
        s \in Statuses, j \in pages}
    \cup {[status_code |-> 200, text_empty |-> TRUE, json |-> <<>>]}

(***************************************************************************)
(* get_data                                                                *)
(***************************************************************************)
\* pd.json_normalize of an array of flat objects
json_normalize(data) ==
    LET cs == UNION {DOMAIN data[i] : i \in 1..Len(data)}
    IN  [cols |-> cs, rows |-> [i \in 1..Len(data) |-> Reindex(data[i], cs)]]

get_data_NoStatusCheck(response) ==
    IF response.text_empty THEN EmptyDF ELSE json_normalize(response.json)

get_data(response) ==
    IF response.status_code = 200
    THEN IF response.text_empty THEN EmptyDF
         ELSE json_normalize(response.json)
    ELSE EmptyDF

\* What get_data prints: the status code of a response that is not 200.
get_data_prints(response) ==
    IF response.status_code = 200 THEN <<>> ELSE <<response.status_code>>

\* time.sleep(s): a delay has passed when s is positive.
time_sleep_Skipped(s) == FALSE

time_sleep(s) == s > 0

\* offset += limit
next_offset_ByOne(off, lim) == off + 1

next_offset_Double(off, lim) == off + lim + lim

next_offset_Stuck(off, lim) == off

next_offset(off, lim) == off + lim

\* One request: get_data on the response, and the history entry of it.
Request(endpoint, id, off, response) ==
    /\ df' = get_data(response)
    /\ log' = Append(log, [endpoint |-> endpoint, id |-> id, offset |-> off,
                           status_code |-> response.status_code,
                           text_empty |-> response.text_empty,
                           rows |-> shape0(get_data(response)),
                           printed |-> get_data_prints(response),
                           delayed |-> slept])
    /\ slept' = FALSE

\* Entering an extractor: its parameters, and its locals as declared.
Entered(entry, a) ==
    /\ pc = entry
    /\ retpc = a.ret
    /\ query_until_date = a.until
    /\ limit = a.limit
    /\ verbose = a.verbose
    /\ teamplay = a.teamplay
    /\ ids = a.ids
    /\ idx = 1
    /\ offset = 0
    /\ first_run = TRUE
    /\ last_page = FALSE
    /\ df = EmptyDF
    /\ df_all = EmptyDF

Call(entry, a) ==
    /\ pc' = entry
    /\ retpc' = a.ret
    /\ query_until_date' = a.until
    /\ limit' = a.limit
    /\ verbose' = a.verbose
    /\ teamplay' = a.teamplay
    /\ ids' = a.ids
    /\ idx' = 1
    /\ offset' = 0
    /\ first_run' = TRUE
    /\ last_page' = FALSE
    /\ df' = EmptyDF
    /\ df_all' = EmptyDF

Args == [ret |-> "returned", until |-> query_min_date, limit |-> DefaultLimit,
         verbose |-> FALSE, teamplay |-> FALSE, ids |-> <<>>]

Return ==
    /\ pc' = retpc
    /\ result' = df_all
    /\ UNCHANGED <<retpc, params, locals, mainVars, upstream, log, slept>>

Raise ==
    /\ pc' = "fault"
    /\ UNCHANGED <<retpc, result, params, idx, offset, first_run, last_page,
                   df_all>>

(***************************************************************************)
(* process_tournaments and get_tournament_data                             *)
(***************************************************************************)
\* pd.to_datetime(...).dt.date: the day of a timestamp
to_date(ts) == ts \div TicksPerDay

\* df[c] on a DataFrame without column c raises KeyError.
process_tournaments_raises(d) ==
    ~({"StartDate", "EndDate", "TotalUSDPrize"} \subseteq d.cols)

process_tournaments(d) ==
    [cols |-> d.cols,
     rows |-> [i \in 1..Len(d.rows) |->
                 [d.rows[i] EXCEPT !["StartDate"] = to_date(@),
                                   !["EndDate"] = to_date(@)]]]

\* The condition of the while loop of get_tournament_data.  Python evaluates
\* it left to right and stops at the first true operand, so the minimum is
\* only taken of a DataFrame that has rows.
tournament_while_LastPageOnly(first, d, all, lim, until) ==
    IF first THEN TRUE
    ELSE IF shape0(d) < lim THEN TRUE
    ELSE ColumnMin(d, "StartDate") > until

tournament_while_FlagInverted(first, d, all, lim, until) ==
    IF first THEN FALSE
    ELSE IF shape0(d) < lim THEN TRUE
    ELSE ColumnMin(all, "StartDate") > until

tournament_while_StopsOnShortPage(first, d, all, lim, until) ==
    IF first THEN TRUE
    ELSE IF shape0(d) < lim THEN FALSE
    ELSE ColumnMin(all, "StartDate") > until

tournament_while(first, d, all, lim, until) ==
    IF first THEN TRUE
    ELSE IF shape0(d) < lim THEN TRUE
    ELSE ColumnMin(all, "StartDate") > until

T_Fetch ==
    /\ pc = "t_while"
    /\ tournament_while(first_run, df, df_all, limit, query_until_date)
    /\ \E response \in Responses(TournPages(offset)) :
          Request("recent_tournaments", 0, offset, response)
    /\ pc' = "t_body"
    /\ UNCHANGED <<retpc, result, params, idx, offset, first_run, last_page,
                   df_all, mainVars, upstream>>

T_Body ==
    /\ pc = "t_body"
    /\ IF process_tournaments_raises(df)
       THEN /\ Raise
            /\ UNCHANGED <<df, slept>>
       ELSE /\ df' = process_tournaments(df)
            /\ df_all' = df_append(df_all, process_tournaments(df))
            /\ offset' = next_offset(offset, limit)
            /\ first_run' = FALSE
            /\ slept' = time_sleep(wait_time_in_seconds)
            /\ pc' = "t_while"
            /\ UNCHANGED <<retpc, result, params, idx, last_page>>
    /\ UNCHANGED <<mainVars, upstream, log>>

T_Return ==
    /\ pc = "t_while"
    /\ ~tournament_while(first_run, df, df_all, limit, query_until_date)
    /\ Return


(***************************************************************************)
(* get_games_data                                                          *)
(***************************************************************************)
\* df_game.GameName.values[0] raises when the DataFrame has no such column
\* or no row.
print_game_name_raises(d) == "GameName" \notin d.cols \/ shape0(d) = 0

G_Fetch ==
    /\ pc = "g_for"
    /\ idx <= Len(ids)
    /\ \E response \in Responses(GamePages(ids[idx])) :
          Request("game_by_id", ids[idx], NaN, response)
    /\ pc' = "g_body"
    /\ UNCHANGED <<retpc, result, params, idx, offset, first_run, last_page,
                   df_all, mainVars, upstream>>

G_Body ==
    /\ pc = "g_body"
    /\ df' = df_set(df, "GameId", ids[idx])
    /\ df_all' = df_append(df_all, df')
    /\ slept' = time_sleep(wait_time_in_seconds)
    /\ IF verbose /\ print_game_name_raises(df')
       THEN pc' = "fault" /\ idx' = idx
       ELSE pc' = "g_for" /\ idx' = idx + 1
    /\ UNCHANGED <<retpc, result, params, offset, first_run, last_page,
                   mainVars, upstream, log>>

G_Return ==
    /\ pc = "g_for"
    /\ idx > Len(ids)
    /\ Return

(***************************************************************************)
(* get_game_earnings                                                       *)
(***************************************************************************)
earnings_endpoint(team) ==
    IF team THEN "highest_earning_teams_by_game"
    ELSE "highest_earning_players_by_game"

\* last_page = df_game_earnings.shape[0] < limit
is_last_page_Inclusive(d, lim) == shape0(d) <= lim

is_last_page_SkipsEmpty(d, lim) == shape0(d) < lim /\ shape0(d) > 0

is_last_page(d, lim) == shape0(d) < lim

E_For ==
    /\ pc = "e_for"
    /\ idx <= Len(ids)
    /\ offset' = 0
    /\ last_page' = FALSE
    /\ pc' = "e_while"
    /\ UNCHANGED <<retpc, result, params, idx, first_run, df, df_all,
                   mainVars, upstream, log, slept>>

E_Fetch ==
    /\ pc = "e_while"
    /\ ~last_page
    /\ \E response \in Responses(EarningsPages(teamplay, ids[idx], offset)) :
          Request(earnings_endpoint(teamplay), ids[idx], offset, response)
    /\ pc' = "e_body"
    /\ UNCHANGED <<retpc, result, params, idx, offset, first_run, last_page,
                   df_all, mainVars, upstream>>

E_Body ==
    /\ pc = "e_body"
    /\ df' = df_set(df, "GameId", ids[idx])
    /\ df_all' = df_append(df_all, df')
    /\ first_run' = FALSE
    /\ offset' = next_offset(offset, limit)
    /\ last_page' = is_last_page(df', limit)
    /\ slept' = time_sleep(wait_time_in_seconds)
    /\ pc' = "e_while"
    /\ UNCHANGED <<retpc, result, params, idx, mainVars, upstream, log>>

E_EndWhile ==
    /\ pc = "e_while"
    /\ last_page
    /\ idx' = idx + 1
    /\ pc' = "e_for"
    /\ UNCHANGED <<retpc, result, params, offset, first_run, last_page, df,
                   df_all, mainVars, upstream, log, slept>>

E_Return ==
    /\ pc = "e_for"
    /\ idx > Len(ids)
    /\ Return

(***************************************************************************)
(* get_tournament_earnings                                                 *)
(***************************************************************************)
results_endpoint(team) ==
    IF team THEN "tournament_team_results_by_tournament_id"
    ELSE "tournament_results_by_tournament_id"

R_Fetch ==
    /\ pc = "r_for"
    /\ idx <= Len(ids)
    /\ \E response \in Responses(ResultPages(teamplay, ids[idx])) :
          Request(results_endpoint(teamplay), ids[idx], NaN, response)
    /\ pc' = "r_body"
    /\ UNCHANGED <<retpc, result, params, idx, offset, first_run, last_page,
                   df_all, mainVars, upstream>>

R_Body ==
    /\ pc = "r_body"
    /\ df' = df_set(df, "TournamentId", ids[idx])
    /\ df_all' = df_append(df_all, df')
    /\ slept' = time_sleep(wait_time_in_seconds)
    /\ idx' = idx + 1
    /\ pc' = "r_for"
    /\ UNCHANGED <<retpc, result, params, offset, first_run, last_page,
                   mainVars, upstream, log>>

R_Return ==
    /\ pc = "r_for"
    /\ idx > Len(ids)
    /\ Return

ExtractorNext ==
    \/ T_Fetch \/ T_Body \/ T_Return
    \/ G_Fetch \/ G_Body \/ G_Return
    \/ E_For \/ E_Fetch \/ E_Body \/ E_EndWhile \/ E_Return
    \/ R_Fetch \/ R_Body \/ R_Return

(***************************************************************************)
(* An extractor called on its own, with any arguments within the bounds.   *)
(***************************************************************************)
IdLists == UNION {[1..n -> GameIds] : n \in 0..MaxIds}

\* The API as a direct call sees it: tournaments differ in their day only.
CallUpstream ==
    {[attrs |-> {a \in TournAttrs : a.GameId = 7 /\ a.Teamplay = 0},
      tcap |-> MaxRows, icap |-> MaxRows, echo |-> e] : e \in EchoModes}

Untouched ==
    /\ result = EmptyDF
    /\ df_tournaments = EmptyDF
    /\ df_games = EmptyDF
    /\ df_solo_earnings = EmptyDF
    /\ df_team_earnings = EmptyDF
    /\ df_solo_tournament_earnings = EmptyDF
    /\ df_team_tournament_earnings = EmptyDF
    /\ files = <<>>
    /\ log = <<>>
    /\ slept = FALSE

InitCall ==
    /\ upstream \in CallUpstream
    /\ Untouched
    /\ \/ \E l \in 1..DefaultLimit :
             Entered("t_while", [Args EXCEPT !.limit = l])
       \/ \E g \in IdLists, v \in BOOLEAN :
             Entered("g_for", [Args EXCEPT !.ids = g, !.verbose = v])
       \/ \E g \in IdLists, t \in BOOLEAN :
             Entered("e_for", [Args EXCEPT !.ids = g, !.teamplay = t])
       \/ \E g \in IdLists, t \in BOOLEAN :
             Entered("r_for", [Args EXCEPT !.ids = g, !.teamplay = t])

SpecCall == InitCall /\ [][ExtractorNext]_vars

(***************************************************************************)
(* main                                                                    *)
(***************************************************************************)
PersonalColumns == {"NameFirst", "NameLast"}

\* The tables main writes, in the order it writes them.
FileNames_OneMissing ==
    <<"data/tournaments.csv", "data/games.csv",
      "data/solo_earnings.csv", "data/team_earnings.csv",
      "data/solo_tournament_earnings.csv">>

FileNames == <<"data/tournaments.csv", "data/games.csv",
               "data/solo_earnings.csv", "data/team_earnings.csv",
               "data/solo_tournament_earnings.csv",
               "data/team_tournament_earnings.csv">>

TableOfFile(n) ==
    CASE n = 1 -> df_tournaments
      [] n = 2 -> df_games
      [] n = 3 -> df_solo_earnings
      [] n = 4 -> df_team_earnings
      [] n = 5 -> df_solo_tournament_earnings
      [] n = 6 -> df_team_tournament_earnings

solo_tournaments == df_where(df_tournaments, "Teamplay", 0)
team_tournaments == df_where(df_tournaments, "Teamplay", 1)

Main_Tournaments ==
    /\ pc = "main"
    /\ Call("t_while", [Args EXCEPT !.until = query_min_date,
                                    !.verbose = module_verbose,
                                    !.ret = "m_games"])
    /\ UNCHANGED <<result, mainVars, upstream, log, slept>>

Main_Games_SavesAtOnce ==
    /\ pc = "m_games"
    /\ df_tournaments' = result
    /\ files' = Append(files, [name |-> "data/tournaments.csv",
                               table |-> result])
    /\ Call("g_for", [Args EXCEPT !.ids = unique(Column(result, "GameId")),
                                  !.verbose = module_verbose,
                                  !.ret = "m_solo_earnings"])
    /\ UNCHANGED <<result, df_games, df_solo_earnings, df_team_earnings,
                   df_solo_tournament_earnings, df_team_tournament_earnings,
                   upstream, log, slept>>

Main_Games ==
    /\ pc = "m_games"
    /\ df_tournaments' = result
    /\ Call("g_for", [Args EXCEPT !.ids = unique(Column(result, "GameId")),
                                  !.verbose = module_verbose,
                                  !.ret = "m_solo_earnings"])
    /\ UNCHANGED <<result, df_games, df_solo_earnings, df_team_earnings,
                   df_solo_tournament_earnings, df_team_tournament_earnings,
                   files, upstream, log, slept>>

Main_SoloEarnings ==
    /\ pc = "m_solo_earnings"
    /\ df_games' = result
    /\ Call("e_for", [Args EXCEPT
                        !.ids = unique(Column(solo_tournaments, "GameId")),
                        !.teamplay = FALSE, !.verbose = TRUE,
                        !.ret = "m_team_earnings"])
    /\ UNCHANGED <<result, df_tournaments, df_solo_earnings, df_team_earnings,
                   df_solo_tournament_earnings, df_team_tournament_earnings,
                   files, upstream, log, slept>>

Main_TeamEarnings ==
    /\ pc = "m_team_earnings"
    /\ df_solo_earnings' = result
    /\ Call("e_for", [Args EXCEPT
                        !.ids = unique(Column(team_tournaments, "GameId")),
                        !.teamplay = TRUE, !.verbose = TRUE,
                        !.ret = "m_solo_results"])
    /\ UNCHANGED <<result, df_tournaments, df_games, df_team_earnings,
                   df_solo_tournament_earnings, df_team_tournament_earnings,
                   files, upstream, log, slept>>

Main_SoloResults ==
    /\ pc = "m_solo_results"
    /\ df_team_earnings' = result
    /\ Call("r_for", [Args EXCEPT
                        !.ids = unique(Column(solo_tournaments, "TournamentId")),
                        !.teamplay = FALSE, !.ret = "m_team_results"])
    /\ UNCHANGED <<result, df_tournaments, df_games, df_solo_earnings,
                   df_solo_tournament_earnings, df_team_tournament_earnings,
                   files, upstream, log, slept>>

Main_TeamResults ==
    /\ pc = "m_team_results"
    /\ df_solo_tournament_earnings' = result
    /\ Call("r_for", [Args EXCEPT
                        !.ids = unique(Column(team_tournaments, "TournamentId")),
                        !.teamplay = TRUE, !.ret = "m_strip"])
    /\ UNCHANGED <<result, df_tournaments, df_games, df_solo_earnings,
                   df_team_earnings, df_team_tournament_earnings,
                   files, upstream, log, slept>>

\* The final postprocessing: the two drops, the first of which has happened
\* when the second raises.
Main_Strip ==
    /\ pc = "m_strip"
    /\ df_team_tournament_earnings' = result
    /\ IF drop_raises(df_solo_earnings, PersonalColumns)
       THEN /\ pc' = "fault"
            /\ UNCHANGED <<df_solo_earnings, df_solo_tournament_earnings>>
       ELSE /\ df_solo_earnings' = df_drop(df_solo_earnings, PersonalColumns)
            /\ IF drop_raises(df_solo_tournament_earnings, PersonalColumns)
               THEN /\ pc' = "fault"
                    /\ UNCHANGED df_solo_tournament_earnings
               ELSE /\ pc' = "save"
                    /\ df_solo_tournament_earnings' =
                          df_drop(df_solo_tournament_earnings, PersonalColumns)
    /\ UNCHANGED <<retpc, result, params, locals, df_tournaments, df_games,
                   df_team_earnings, files, upstream, log, slept>>

\* One to_csv call: the next table is written.
Main_ToCsv ==
    /\ pc = "save"
    /\ files' = Append(files, [name |-> FileNames[Len(files) + 1],
                               table |-> TableOfFile(Len(files) + 1)])
    /\ pc' = IF Len(files') = Len(FileNames) THEN "done" ELSE "save"
    /\ UNCHANGED <<retpc, result, params, locals, df_tournaments, df_games,
                   df_solo_earnings, df_team_earnings,
                   df_solo_tournament_earnings, df_team_tournament_earnings,
                   upstream, log, slept>>

MainNext ==
    \/ Main_Tournaments \/ Main_Games \/ Main_SoloEarnings
    \/ Main_TeamEarnings \/ Main_SoloResults \/ Main_TeamResults
    \/ Main_Strip \/ Main_ToCsv

\* The API as a run of main sees it: every tournament is of the cutoff day,
\* the tournament listing has one page, the other listings one row at most,
\* and the API sends no id column.
MainUpstream ==
    [attrs |-> {a \in TournAttrs : a.day = query_min_date},
     tcap |-> DefaultLimit, icap |-> 1, echo |-> "none"]

Init ==
    /\ upstream = MainUpstream
    /\ Untouched
    /\ Entered("main", Args)

Next == MainNext \/ ExtractorNext

Spec == Init /\ [][Next]_vars

(***************************************************************************)
(* Reading the history.                                                    *)
(***************************************************************************)
Last(s) == s[Len(s)]

BodyPcs == {"t_body", "g_body", "e_body", "r_body"}

SingleFetchEndpoints ==
    {"game_by_id", "tournament_results_by_tournament_id",
     "tournament_team_results_by_tournament_id"}

EarningsEndpoints ==
    {"highest_earning_players_by_game", "highest_earning_teams_by_game"}

\* The call being run is one of get_tournament_data.
TournamentCall ==
    \/ pc \in {"t_while", "t_body"}
    \/ Len(log) > 0 /\ log[1].endpoint = "recent_tournaments"

\* The call being run is one of get_game_earnings.
EarningsCall ==
    \/ pc \in {"e_for", "e_while", "e_body"}
    \/ Len(log) > 0 /\ log[1].endpoint \in EarningsEndpoints

\* The requests whose rows the accumulator holds: all but one still in its
\* loop body.
Appended == IF pc \in BodyPcs THEN Len(log) - 1 ELSE Len(log)

\* The number of rows the first k requests returned.
RECURSIVE RowsOf(_)
RowsOf(k) == IF k = 0 THEN 0 ELSE RowsOf(k - 1) + log[k].rows

\* The identifier of each of the first k requests, once per row it returned.
RECURSIVE IdPerRow(_)
IdPerRow(k) ==
    IF k = 0 THEN <<>>
    ELSE IdPerRow(k - 1) \o [i \in 1..log[k].rows |-> log[k].id]

\* The identifiers of the fetch groups among the first k requests: a group
\* starts with a request that has no offset, or offset 0.
RECURSIVE GroupIds(_)
GroupIds(k) ==
    IF k = 0 THEN <<>>
    ELSE IF log[k].offset \in {0, NaN}
         THEN Append(GroupIds(k - 1), log[k].id)
         ELSE GroupIds(k - 1)

\* The column an extractor stamps, and the one that numbers the rows of a
\* listing.
IdColumn(endpoint) ==
    IF endpoint \in EarningsEndpoints \cup {"game_by_id"}
    THEN "GameId" ELSE "TournamentId"

RankColumn(team) == IF team THEN "TeamId" ELSE "PlayerId"

(***************************************************************************)
(* C1.  In get_tournament_data, after every page that was fetched and      *)
(* processed without a fault, the loop stops if and only if that page has  *)
(* at least `limit` rows and the least StartDate of all accumulated rows   *)
(* is at most the cutoff; so what is returned has a row whose StartDate    *)
(* is at most the cutoff.                                                  *)
(***************************************************************************)
C1_StopsIffFullPageAndCutoffSeen ==
    [][(pc = "t_while" /\ ~first_run) =>
         LET stop == /\ shape0(df) >= limit
                     /\ ColumnMin(df_all, "StartDate") <= query_until_date
         IN  /\ (pc' = retpc) <=> stop
             /\ (pc' # retpc) <=> (pc' = "t_body" /\ Len(log') = Len(log) + 1)
             /\ (pc' = retpc) =>
                   \E i \in 1..shape0(result') :
                      result'.rows[i]["StartDate"] <= query_until_date]_vars

\* A call that returned after a page that did not end the loop.
C1_Witness ==
    /\ pc = "returned"
    /\ TournamentCall
    /\ Len(log) >= 2
    /\ shape0(result) > limit

(***************************************************************************)
(* C2.  get_tournament_data never returns before it has issued a request,  *)
(* the first of them at offset 0, whatever the limit.                      *)
(***************************************************************************)
C2_NoReturnBeforeFirstFetch ==
    [][(pc \in {"t_while", "t_body"} /\ pc' = retpc) =>
         (Len(log) >= 1 /\ log[1].offset = 0
          /\ log[1].endpoint = "recent_tournaments")]_vars

\* A call that returned after its first page.
C2_Witness ==
    /\ pc = "returned"
    /\ TournamentCall
    /\ Len(log) = 1
    /\ limit < DefaultLimit

(***************************************************************************)
(* C3.  The scenario of the specification, with the page limit scaled from *)
(* 100 to DefaultLimit: the first page is full and all of it is later      *)
(* than the cutoff, the second page is short and brings the least          *)
(* StartDate down to the cutoff or before; then the loop ends after the    *)
(* second page: no third request is issued.                                *)
(***************************************************************************)
C3_ScenarioHappened ==
    /\ TournamentCall
    /\ limit = DefaultLimit
    /\ query_until_date = query_min_date
    /\ Appended >= 2
    /\ log[1].rows = limit
    /\ \A i \in 1..limit : df_all.rows[i]["StartDate"] > query_until_date
    /\ log[2].rows > 0
    /\ log[2].rows < limit
    /\ \E i \in limit + 1..limit + log[2].rows :
          df_all.rows[i]["StartDate"] <= query_until_date

C3_ScenarioEndsAfterSecondPage ==
    C3_ScenarioHappened => Len(log) = 2

C5_FullThenShortPage ==
    EarningsCall =>
      \A s \in 1..Len(log) :
        (log[s].offset = 0 /\ log[s].rows = limit) =>
          /\ (pc = "e_while" /\ Len(log) = s /\ offset # 0) => ~last_page
          /\ s + 1 <= Len(log) =>
                /\ log[s + 1].offset = limit
                /\ log[s + 1].id = log[s].id
                /\ log[s + 1].rows < limit =>
                      /\ s + 2 <= Len(log) => log[s + 2].offset = 0
                      /\ (pc = "e_while" /\ Len(log) = s + 1 /\ offset # 0)
                            => last_page
                      /\ Appended >= s + 1 =>
                            SubSeq(Column(df_all, RankColumn(teamplay)),
                                   RowsOf(s - 1) + 1, RowsOf(s + 1))
                            = [i \in 1..limit + log[s + 1].rows |-> i]

\* A full page and then a short one that has rows, for the second of two
\* identifiers.
C5_Witness ==
    /\ pc = "returned"
    /\ EarningsCall
    /\ Len(ids) = 2
    /\ Len(log) >= 3
    /\ log[Len(log)].offset = limit
    /\ log[Len(log)].rows > 0
    /\ log[Len(log)].rows < limit
    /\ log[Len(log) - 1].offset = 0
    /\ log[Len(log) - 1].rows = limit
    /\ log[Len(log) - 2].id = ids[1]

(***************************************************************************)
(* C6.  In get_game_earnings, when the listing of an identifier ends on a  *)
(* full page (k full pages and then nothing, k >= 1), the request after    *)
(* the k-th page cannot be skipped; it is the last for the identifier, so  *)
(* there are k + 1 of them at offsets 0, limit, ..., k * limit; the        *)
(* empty page adds no row and raises no fault, and the extractor goes on   *)
(* with the next identifier.                                               *)
(***************************************************************************)
C6_OneExtraRequestAfterFullLastPage ==
    EarningsCall =>
      /\ (pc = "e_while" /\ offset # 0 /\ Last(log).rows = limit)
            => ~last_page
      /\ \A s \in 1..Len(log), k \in 1..MaxRows :
           (/\ log[s].offset = 0
            /\ s + k <= Len(log)
            /\ \A j \in 0..k - 1 : log[s + j].rows = limit
            /\ log[s + k].rows = 0) =>
              /\ \A j \in 0..k : /\ log[s + j].offset = j * limit
                                 /\ log[s + j].id = log[s].id
              /\ s + k + 1 <= Len(log) => log[s + k + 1].offset = 0
              /\ pc # "fault"
              /\ (pc = "e_while" /\ Len(log) = s + k /\ offset # 0)
                    => last_page
              /\ Appended >= s + k =>
                    /\ RowsOf(s + k) - RowsOf(s - 1) = k * limit
                    /\ shape0(df_all) = RowsOf(Appended)

\* The first of two identifiers had one full page and then an empty one
\* with status 200, and the second identifier was fetched.
C6_Witness ==
    /\ EarningsCall
    /\ Len(log) >= 3
    /\ log[1].rows = limit
    /\ log[2].rows = 0
    /\ log[2].status_code = 200
    /\ log[2].offset = limit
    /\ log[3].offset = 0
    /\ log[3].id # log[1].id

C8_FetcherDegradesToEmpty ==
    /\ \A i \in 1..Len(log) :
          /\ log[i].status_code # 200 =>
                log[i].rows = 0 /\ log[i].printed = <<log[i].status_code>>
          /\ log[i].status_code = 200 => log[i].printed = <<>>
          /\ (log[i].status_code = 200 /\ log[i].text_empty) =>
                log[i].rows = 0
    /\ (pc \in BodyPcs /\ (Last(log).status_code # 200 \/ Last(log).text_empty))
          => df = EmptyDF

\* get_data has just answered a 500, after an earlier request was answered
\* with rows.
C8_Witness ==
    /\ pc \in BodyPcs
    /\ Last(log).status_code = 500
    /\ Len(log) >= 2
    /\ log[1].rows > 0

(***************************************************************************)
(* C9.  In a run of main, a response that is not 200 never makes the loop  *)
(* body that receives it raise a fault.                                    *)
(***************************************************************************)
C9_BadStatusNeverFatal ==
    [][(pc \in BodyPcs /\ Last(log).status_code # 200) => pc' # "fault"]_vars

(***************************************************************************)
(* C10.  In a run of main, every request but the first is issued after a   *)
(* rate-limit delay that followed the request before it.                   *)
(***************************************************************************)
C10_DelayBetweenFetches ==
    \A i \in 2..Len(log) : log[i].delayed

\* Two consecutive requests of different extractors, and two of the same.
C10_Witness ==
    /\ Len(log) >= 4
    /\ \E i \in 1..Len(log) - 1 : log[i].endpoint # log[i + 1].endpoint
    /\ \E i \in 1..Len(log) - 1 : log[i].endpoint = log[i + 1].endpoint
    /\ Last(log).endpoint = "tournament_team_results_by_tournament_id"

(***************************************************************************)
(* A run of main that keeps going: the program is sequential and takes     *)
(* its next step whenever it has one, and the API answers every request.   *)
(***************************************************************************)
SpecLive == Spec /\ WF_vars(Next)

C12_NoFileBeforeAllStagesDone ==
    /\ files # <<>> =>
          /\ pc \in {"save", "done"}
          /\ retpc = "m_strip"
          /\ PersonalColumns \cap df_solo_earnings.cols = {}
          /\ PersonalColumns \cap df_solo_tournament_earnings.cols = {}
    /\ pc = "fault" => files = <<>>
    /\ pc \notin {"save", "done"} => files = <<>>

\* A fault in the last stage before the save step: the drops.
C12_Witness ==
    /\ pc = "fault"
    /\ retpc = "m_strip"
    /\ shape0(df_team_earnings) > 0

(***************************************************************************)
(* Reading the stages of main from the history.                            *)
(***************************************************************************)
\* The place of an endpoint in the order in which main calls the extractors.
StageOf(endpoint) ==
    CASE endpoint = "recent_tournaments" -> 1
      [] endpoint = "game_by_id" -> 2
      [] endpoint = "highest_earning_players_by_game" -> 3
      [] endpoint = "highest_earning_teams_by_game" -> 4
      [] endpoint = "tournament_results_by_tournament_id" -> 5
      [] endpoint = "tournament_team_results_by_tournament_id" -> 6

\* The rows of Tournaments whose Teamplay is one of tp and whose col is v.
RowsWith(col, tp, v) ==
    {k \in 1..Len(df_tournaments.rows) :
        /\ df_tournaments.rows[k].Teamplay \in tp
        /\ df_tournaments.rows[k][col] = v}

FirstRowWith(col, tp, v) ==
    CHOOSE k \in RowsWith(col, tp, v) : \A j \in RowsWith(col, tp, v) : k <= j

\* l lists, once each and in order of first occurrence, the values of col
\* in the rows of Tournaments whose Teamplay is one of tp.
IsFirstOccurrenceList(l, col, tp) ==
    /\ \A i, j \in 1..Len(l) : i # j => l[i] # l[j]
    /\ \A i \in 1..Len(l) : RowsWith(col, tp, l[i]) # {}
    /\ \A k \in 1..Len(df_tournaments.rows) :
          df_tournaments.rows[k].Teamplay \in tp =>
             \E i \in 1..Len(l) : l[i] = df_tournaments.rows[k][col]
    /\ \A i, j \in 1..Len(l) :
          i < j => FirstRowWith(col, tp, l[i]) < FirstRowWith(col, tp, l[j])

(***************************************************************************)
(* C13.  The stages of main run in the order tournaments, games, solo      *)
(* earnings, team earnings, solo results, team results, and the list of    *)
(* identifiers of each stage after the first is the duplicate-free list,   *)
(* in order of first occurrence, of the column of Tournaments it is drawn  *)
(* from: GameId of all rows for games, GameId of the rows with Teamplay 0  *)
(* (1) for solo (team) earnings, TournamentId of the rows with Teamplay 0  *)
(* (1) for solo (team) results.  No tournament is asked for by both        *)
(* result extractors.                                                      *)
(***************************************************************************)
C13_StagesInOrderOverDerivedIds ==
    /\ \A i, j \in 1..Len(log) :
          i < j => StageOf(log[i].endpoint) <= StageOf(log[j].endpoint)
    /\ \A i \in 1..Len(log) :
          StageOf(log[i].endpoint) > 1 =>
             \E k \in 1..Len(df_tournaments.rows) :
                /\ df_tournaments.rows[k][IdColumn(log[i].endpoint)]
                      = log[i].id
                /\ df_tournaments.rows[k].Teamplay =
                      IF StageOf(log[i].endpoint) \in {3, 5} THEN 0
                      ELSE IF StageOf(log[i].endpoint) \in {4, 6} THEN 1
                      ELSE df_tournaments.rows[k].Teamplay
    /\ retpc = "m_solo_earnings" =>
          IsFirstOccurrenceList(ids, "GameId", {0, 1})
    /\ retpc = "m_team_earnings" =>
          /\ IsFirstOccurrenceList(ids, "GameId", {0})
          /\ ~teamplay
    /\ retpc = "m_solo_results" =>
          /\ IsFirstOccurrenceList(ids, "GameId", {1})
          /\ teamplay
    /\ retpc = "m_team_results" =>
          /\ IsFirstOccurrenceList(ids, "TournamentId", {0})
          /\ ~teamplay
    /\ retpc = "m_strip" =>
          /\ IsFirstOccurrenceList(ids, "TournamentId", {1})
          /\ teamplay
    /\ \A i, j \in 1..Len(log) :
          (/\ log[i].endpoint = "tournament_results_by_tournament_id"
           /\ log[j].endpoint = "tournament_team_results_by_tournament_id")
             => log[i].id # log[j].id

\* Two tournaments of one game, one solo and one team: the game occurs
\* twice in Tournaments, and both result extractors have made a request.
C13_Witness ==
    /\ Len(df_tournaments.rows) = 2
    /\ df_tournaments.rows[1].GameId = df_tournaments.rows[2].GameId
    /\ \E i \in 1..Len(log) :
          log[i].endpoint = "tournament_results_by_tournament_id"
    /\ \E i \in 1..Len(log) :
          log[i].endpoint = "tournament_team_results_by_tournament_id"
    /\ pc = "m_strip"

(***************************************************************************)
(* C14.  In get_tournament_data, when the first page fetched is empty      *)
(* (0 rows, fewer than limit), the loop ends on the page-size check alone  *)
(* and without a fault: nothing more is requested and the call returns.    *)
(***************************************************************************)
C14_EmptyFirstPageEndsWithoutFault ==
    (/\ Len(log) >= 1
     /\ log[1].endpoint = "recent_tournaments"
     /\ log[1].rows = 0
     /\ pc # "t_body")
       => /\ pc \in {"t_while", "returned"}
          /\ Len(log) = 1

(***************************************************************************)
(* Reading the tables of main.                                             *)
(***************************************************************************)
\* The six tables, in the order in which main assigns them.
Tables ==
    <<df_tournaments, df_games, df_solo_earnings, df_team_earnings,
      df_solo_tournament_earnings, df_team_tournament_earnings>>

\* Where main is when it assigns the n-th table the result of its extractor.
AssignedAt ==
    <<"m_games", "m_solo_earnings", "m_team_earnings", "m_solo_results",
      "m_team_results", "m_strip">>

\* SoloEarnings and SoloTournamentResults.
SoloTables == {3, 5}

\* t is s without the columns NameFirst and NameLast: the same rows in the
\* same order, every other column with the same values.
IsWithoutNames(t, s) ==
    /\ t.cols = s.cols \ {"NameFirst", "NameLast"}
    /\ Len(t.rows) = Len(s.rows)
    /\ \A i \in 1..Len(t.rows) :
          /\ DOMAIN t.rows[i] = t.cols
          /\ \A c \in t.cols : t.rows[i][c] = s.rows[i][c]

(***************************************************************************)
(* C15.  Every table of main is what its extractor returned, except that   *)
(* the final drops take NameFirst and NameLast, and nothing else, out of   *)
(* SoloEarnings and SoloTournamentResults; each to_csv writes the next     *)
(* table as it then is.  So the other columns of the two solo tables and   *)
(* all of the other four tables are persisted unchanged.                   *)
(***************************************************************************)
C15_OnlyNamesDropped ==
    [][/\ \A n \in 1..6 :
             /\ pc = AssignedAt[n] => Tables'[n] = result
             /\ (pc = "m_strip" /\ pc' = "save" /\ n \in SoloTables) =>
                   /\ {"NameFirst", "NameLast"} \subseteq Tables[n].cols
                   /\ IsWithoutNames(Tables'[n], Tables[n])
             /\ (pc # AssignedAt[n] /\ ~(pc = "m_strip" /\ n \in SoloTables))
                   => Tables'[n] = Tables[n]
       /\ pc = "save" =>
             /\ Tables' = Tables
             /\ files' = Append(files,
                   [name |-> <<"data/tournaments.csv", "data/games.csv",
                               "data/solo_earnings.csv",
                               "data/team_earnings.csv",
                               "data/solo_tournament_earnings.csv",
                               "data/team_tournament_earnings.csv">>
                                  [Len(files) + 1],
                    table |-> Tables[Len(files) + 1]])
       /\ pc # "save" => files' = files]_vars

\* A finished run whose solo and team tables all have rows.
C15_Witness ==
    /\ pc = "done"
    /\ Len(files) = 6
    /\ \A n \in 3..6 : shape0(files[n].table) > 0
    /\ "PlayerId" \in files[3].table.cols
    /\ "PrizeUSD" \in files[5].table.cols

(***************************************************************************)
(* C16.  In get_game_earnings a response with a status other than 200, or  *)
(* with an empty body, at any offset counts as a short page: it yields no  *)
(* rows and no fault, it ends the pagination of its identifier, and the    *)
(* request after it, if any, is the first one (offset 0) of the next       *)
(* identifier of the list; no identifier is left out.                      *)
(***************************************************************************)
C16_BadResponseEndsIdentifier ==
    EarningsCall =>
       /\ \A s \in 1..Len(log) :
             (log[s].status_code # 200 \/ log[s].text_empty) =>
                /\ log[s].rows = 0
                /\ log[s].id = ids[Len(GroupIds(s))]
                /\ (s = Len(log) /\ pc = "e_while" /\ offset # 0) => last_page
                /\ s < Len(log) =>
                      /\ log[s + 1].offset = 0
                      /\ Len(GroupIds(s)) < Len(ids)
                      /\ log[s + 1].id = ids[Len(GroupIds(s)) + 1]
       /\ pc # "fault"
       /\ pc = "returned" => Len(GroupIds(Len(log))) = Len(ids)

\* A full page for the first identifier, then a bad status at the next
\* offset although the listing holds more rows, then the second identifier.
C16_Witness ==
    /\ pc = "returned"
    /\ Len(log) >= 3
    /\ log[1].endpoint \in EarningsEndpoints
    /\ log[1].rows = limit
    /\ log[2].status_code # 200
    /\ log[2].offset = limit
    /\ limit < upstream.icap
    /\ log[3].offset = 0
    /\ log[3].id = ids[2]
    /\ ids[1] # ids[2]

\* The position in its listing of each row the first k requests returned:
\* a page asked for at an offset holds the rows after that offset.
RECURSIVE PositionPerRow(_)
PositionPerRow(k) ==
    IF k = 0 THEN <<>>
    ELSE PositionPerRow(k - 1)
            \o [i \in 1..log[k].rows |-> log[k].offset + i]

(***************************************************************************)
(* C17.  In both offset paginators the offsets asked for are 0, limit,     *)
(* 2*limit, ... in this order, with no gap and no repeat: one such         *)
(* sequence for a call of get_tournament_data, and in get_game_earnings    *)
(* one per identifier, starting again at 0.  The accumulator holds the     *)
(* rows in the order in which they were fetched.                           *)
(***************************************************************************)
C17_OffsetsAscendByLimit ==
    /\ TournamentCall =>
          /\ \A i \in 1..Len(log) : log[i].offset = (i - 1) * limit
          /\ Column(df_all, "TournamentId") = PositionPerRow(Appended)
    /\ EarningsCall =>
          /\ Len(log) >= 1 => log[1].offset = 0
          /\ \A i \in 2..Len(log) :
                \/ /\ log[i].id = log[i - 1].id
                   /\ log[i].offset = log[i - 1].offset + limit
                \/ /\ log[i].offset = 0
                   /\ log[i].id = ids[Len(GroupIds(i))]
          /\ Column(df_all, RankColumn(teamplay)) = PositionPerRow(Appended)

\* Three requests for the first identifier, at 0, limit and 2*limit, the
\* first two with rows; then the second identifier from 0 again.
C17_Witness ==
    /\ pc = "returned"
    /\ Len(log) >= 4
    /\ log[1].endpoint \in EarningsEndpoints
    /\ log[1].rows = limit
    /\ log[2].rows = limit
    /\ log[3].offset = 2 * limit
    /\ log[4].offset = 0
    /\ log[4].rows > 0

(***************************************************************************)
(* C18.  In get_tournament_data a short page never ends the pagination:    *)
(* after a page with fewer than limit rows that was processed without a    *)
(* fault, the next step is a request at the next offset, whatever the      *)
(* dates; and the call returns only right after a page of at least limit   *)
(* rows.  So once the listing is exhausted the call cannot return.         *)
(***************************************************************************)
C18_ShortPageNeverEndsPagination ==
    [][(pc = "t_while" /\ ~first_run) =>
         /\ shape0(df) < limit =>
               /\ pc' = "t_body"
               /\ Len(log') = Len(log) + 1
               /\ Last(log').endpoint = "recent_tournaments"
               /\ Last(log').offset = Last(log).offset + limit
         /\ pc' = "returned" => shape0(df) >= limit]_vars

\* A short first page with a row that is not later than the cutoff, and
\* the request that follows it.
C18_Witness ==
    /\ pc = "t_body"
    /\ Len(log) = 2
    /\ log[1].endpoint = "recent_tournaments"
    /\ log[1].rows > 0
    /\ log[1].rows < limit
    /\ ColumnMin(df_all, "StartDate") <= query_until_date
    /\ log[2].offset = limit

(***************************************************************************)
(* C19.  No request is made twice: within one call of an extractor over a  *)
(* list of identifiers without duplicates, no two requests have the same   *)
(* identifier and the same offset, whatever their status codes.            *)
(***************************************************************************)
C19_NoRequestRepeated ==
    (\A a, b \in 1..Len(ids) : a # b => ids[a] # ids[b]) =>
       \A i, j \in 1..Len(log) :
          i # j => \/ log[i].id # log[j].id
                   \/ log[i].offset # log[j].offset

\* A call over two identifiers in which a request failed and a full page
\* was followed by another request.
C19_Witness ==
    /\ pc = "returned"
    /\ Len(ids) = 2
    /\ ids[1] # ids[2]
    /\ \E i \in 1..Len(log) : log[i].status_code # 200
    /\ \E i \in 1..Len(log) : log[i].rows = limit /\ i < Len(log)
    /\ Len(log) >= 4

(***************************************************************************)
(* C20.  main reaches its save step only if SoloEarnings and               *)
(* SoloTournamentResults both have the columns NameFirst and NameLast.     *)
(* When one of them has no rows (an empty list of identifiers, or only     *)
(* empty or failed fetches) the drops raise: the run is aborted with no    *)
(* file written, although all six extractors returned.                     *)
(***************************************************************************)
C20_SaveNeedsNameColumns ==
    [][pc = "m_strip" =>
         /\ retpc = "m_strip"
         /\ pc' = "save" <=>
               /\ {"NameFirst", "NameLast"} \subseteq df_solo_earnings.cols
               /\ {"NameFirst", "NameLast"}
                     \subseteq df_solo_tournament_earnings.cols
         /\ (\/ shape0(df_solo_earnings) = 0
             \/ shape0(df_solo_tournament_earnings) = 0) => pc' # "save"
         /\ pc' # "save" => pc' = "fault" /\ files' = <<>>]_vars

\* No solo tournament at all: both solo extractors were called with an
\* empty list and returned, the team tables have rows, and the drops raised.
C20_Witness ==
    /\ pc = "fault"
    /\ retpc = "m_strip"
    /\ df_solo_earnings = EmptyDF
    /\ df_solo_tournament_earnings = EmptyDF
    /\ shape0(df_team_tournament_earnings) > 0
    /\ \A i \in 1..Len(log) : log[i].status_code = 200
    /\ files = <<>>

====
